---- MODULE Spec2Model ----
(***************************************************************************)
(* Model of plb/optimizer: the Rollout Coordinator (Solver.solve_multistep *)
(* and Solver.exec_multistep of focal_learn_latent.py / learn_latent.py),  *)
(* the distributed training loops learn_latent and learn_latent_focal, and *)
(* the single-agent Solver.solve of solver.py.                             *)
(*                                                                         *)
(* Numbers.  A tensor element is a record [nan, v]: NaN or the integer v.  *)
(* Averages are exact rationals [n, d] in lowest terms with d > 0.         *)
(* Python's None is the record [some |-> FALSE, val |-> <<>>].             *)
(***************************************************************************)
EXTENDS Integers, Sequences, FiniteSets, TLC

\* ------------------------------------------------------------------ bounds
\* particles per frame (length of a point cloud and of its gradient)
NPart == 2
\* longest target sequence of a sample
MaxLen == 3
\* largest configured step count tried (self.steps ranges over unset, -1..MaxSteps)
MaxSteps == 4

\* ------------------------------------------------------------ value types
NaN == [nan |-> TRUE, v |-> 0]
Num(x) == [nan |-> FALSE, v |-> x]
None == [some |-> FALSE, val |-> <<>>]
Some(x) == [some |-> TRUE, val |-> x]
Unset == [set |-> FALSE, val |-> 0]
Configured(s) == [set |-> TRUE, val |-> s]

Min(a, b) == IF a <= b THEN a ELSE b
Max(a, b) == IF a >= b THEN a ELSE b

\* torch.isnan on one element
isnan(x) == x.nan

\* torch.Tensor.clamp(lo, hi) on one element: NaN stays NaN, a number is
\* brought into [lo, hi]
clamp_noop(x, lo, hi) == x
clamp(x, lo, hi) == IF x.nan THEN x ELSE Num(Max(lo, Min(x.v, hi)))

\* torch.isnan(t).any()
any_isnan_all(g) == \A i \in DOMAIN g : isnan(g[i])
any_isnan(g) == \E i \in DOMAIN g : isnan(g[i])

\* -------------------------------------------------------- Rollout Engine
\* The simulator (TaichiEnv) is external: it is modelled by the calls it
\* receives (log), the state it was reset to, the target last set and the
\* loss it has accumulated.  The loss term of step i is an input (lossTerms).
EnvCall(name, arg) == [call |-> name, arg |-> arg]

env_set_state(env, st) ==
    [env EXCEPT !.state = st, !.loss = 0,
                !.log = Append(@, EnvCall("set_state", -1))]
env_set_target(env, tg, i) ==
    [env EXCEPT !.target = tg, !.log = Append(@, EnvCall("set_target", i))]
env_step(env, a, i) ==
    [env EXCEPT !.nsteps = @ + 1, !.log = Append(@, EnvCall("step", i))]
env_compute_loss(env, term, i) ==
    [env EXCEPT !.loss = @ + term, !.log = Append(@, EnvCall("compute_loss", i))]
env_set_grad(env) ==
    [env EXCEPT !.log = Append(@, EnvCall("set_grad", -1))]
\* loss = env.loss.loss[None] and env.get_state_grad(): reads of the result
env_read_loss(env) ==
    [env EXCEPT !.log = Append(@, EnvCall("read_loss", -1))]
env_get_state_grad(env) ==
    [env EXCEPT !.log = Append(@, EnvCall("get_state_grad", -1))]

\* steps = len(targets) if self.steps is None, else self.steps when
\* 0 < self.steps < len(targets), else len(targets)
rollout_steps_unclamped(s, L) == IF ~s.set THEN L ELSE IF s.val > 0 THEN s.val ELSE L
rollout_steps(s, L) ==
    IF ~s.set THEN L
    ELSE IF (s.val < L) /\ (s.val > 0) THEN s.val ELSE L

\* for i in range(steps): set_target(targets[i]); step(actions[i]); compute_loss
\* Python index i is element i+1 of the TLA+ sequence; an index past the end
\* of targets or actions raises IndexError, recorded in env.oob: targets[i] is
\* evaluated first, so with actions too short set_target(targets[i]) has
\* already been called when actions[i] fails.
RECURSIVE forward_loop_step_first(_, _, _, _, _, _)
forward_loop_step_first(env, targets, actions, lossTerms, i, steps) ==
    IF i >= steps THEN env
    ELSE IF i + 1 > Len(actions)
         THEN [env EXCEPT !.oob = TRUE]
    ELSE IF i + 1 > Len(targets)
         THEN [env_step(env, actions[i + 1], i) EXCEPT !.oob = TRUE]
         ELSE forward_loop_step_first(
                env_compute_loss(
                  env_set_target(env_step(env, actions[i + 1], i), targets[i + 1], i),
                  lossTerms[i + 1], i),
                targets, actions, lossTerms, i + 1, steps)
RECURSIVE forward_loop(_, _, _, _, _, _)
forward_loop(env, targets, actions, lossTerms, i, steps) ==
    IF i >= steps THEN env
    ELSE IF i + 1 > Len(targets)
         THEN [env EXCEPT !.oob = TRUE]
    ELSE IF i + 1 > Len(actions)
         THEN [env_set_target(env, targets[i + 1], i) EXCEPT !.oob = TRUE]
         ELSE forward_loop(
                env_compute_loss(
                  env_step(env_set_target(env, targets[i + 1], i), actions[i + 1], i),
                  lossTerms[i + 1], i),
                targets, actions, lossTerms, i + 1, steps)

\* Solver.solve_multistep.forward: reset, recorded rollout, set_grad; an
\* IndexError of the loop leaves forward before set_grad and the reads
forward_grad(env, selfSteps, state, targets, actions, lossTerms) ==
    LET e == forward_loop(env_set_state(env, state), targets, actions, lossTerms,
                          0, rollout_steps(selfSteps, Len(targets)))
    IN  IF e.oob THEN e
        ELSE env_get_state_grad(env_read_loss(env_set_grad(e)))

\* Solver.exec_multistep.forward: reset, rollout without gradient
forward_nograd_multi(env, selfSteps, state, targets, actions, lossTerms) ==
    LET e == forward_loop(env_set_state(env, state), targets, actions, lossTerms,
                          0, rollout_steps(selfSteps, Len(targets)))
    IN  IF e.oob THEN e ELSE env_read_loss(e)

\* ---------------------------------------------------- Rollout Coordinator
\* The caller's containers live in a heap: a function from reference names
\* to list values.  copy.deepcopy allocates the list "state_hat".
Refs == {"state", "actions", "targets", "state_hat"}

deepcopy_alias(h, src) == [heap |-> h, ref |-> src]
deepcopy(h, src) == [heap |-> [h EXCEPT !["state_hat"] = h[src]], ref |-> "state_hat"]

\* x_hat[assignment]: reorder the decoded cloud by the correspondence
reorder(x_hat, assignment) == [i \in DOMAIN assignment |-> x_hat[assignment[i]]]

\* The inputs of one call that the external collaborators decide:
\*   dec        the decoded cloud self.model(x)
\*   assignment the correspondence of the oracle, loss_first its distance
\*   lossTerms  the simulator's loss term of every step
\*   rawGrad    env.get_state_grad()[0], before the clamp
EmptyEnv == [state |-> <<>>, target |-> <<>>, loss |-> 0, nsteps |-> 0,
             oob |-> FALSE, log |-> <<>>]

\* the call left by IndexError: nothing is returned
IndexErrorRaised ==
    [state |-> None, gradient |-> None, loss_first |-> 0, loss |-> 0,
     raised |-> TRUE]

\* lines 108-112: the NaN gate of solve_multistep
nan_gate(x_hat, g, loss_first, loss) ==
    IF ~any_isnan(g)
    THEN [state |-> Some(x_hat), gradient |-> Some(g),
          loss_first |-> loss_first, loss |-> loss, raised |-> FALSE]
    ELSE [state |-> None, gradient |-> None,
          loss_first |-> loss_first, loss |-> loss, raised |-> FALSE]

\* Solver.solve_multistep (focal_learn_latent.py; learn_latent.py differs only
\* in returning 0 for loss_first, which its caller passes as loss_first = 0)
solve_multistep(h, selfSteps, inp) ==
    LET x_hat == reorder(inp.dec, inp.assignment)
        cp    == deepcopy(h, "state")
        h2    == [cp.heap EXCEPT ![cp.ref][1] = x_hat]
        env   == forward_grad(EmptyEnv, selfSteps, h2[cp.ref],
                              h2["targets"], h2["actions"], inp.lossTerms)
        g     == [i \in DOMAIN inp.rawGrad |-> clamp(inp.rawGrad[i], -1, 1)]
    IN  [heap |-> h2, env |-> env,
         ret |-> IF env.oob THEN IndexErrorRaised
                 ELSE nan_gate(x_hat, g, inp.loss_first, env.loss)]

\* Solver.exec_multistep
exec_multistep(h, selfSteps, inp) ==
    LET x_hat == reorder(inp.dec, inp.assignment)
        cp    == deepcopy(h, "state")
        h2    == [cp.heap EXCEPT ![cp.ref][1] = x_hat]
        env   == forward_nograd_multi(EmptyEnv, selfSteps, h2[cp.ref],
                                      h2["targets"], h2["actions"], inp.lossTerms)
    IN  [heap |-> h2, env |-> env,
         ret |-> IF env.oob THEN IndexErrorRaised
                 ELSE [state |-> None, gradient |-> None,
                       loss_first |-> inp.loss_first, loss |-> env.loss,
                       raised |-> FALSE]]

\* --------------------------------------------------------------- rationals
Abs(x) == IF x < 0 THEN -x ELSE x

RECURSIVE GCD(_, _)
GCD(a, b) == IF b = 0 THEN a ELSE GCD(b, a % b)

\* the rational n/d (d > 0) in lowest terms
Rat(n, d) == LET g == GCD(Abs(n), d) IN [n |-> n \div g, d |-> d \div g]
RInt(x) == [n |-> x, d |-> 1]
RAdd(a, b) == Rat(a.n * b.d + b.n * a.d, a.d * b.d)
RDiv(a, k) == Rat(a.n, a.d * k)
RSign(a) == IF a.n > 0 THEN 1 ELSE IF a.n < 0 THEN -1 ELSE 0

RECURSIVE RSumSeq(_)
RSumSeq(s) == IF s = <<>> THEN RInt(0) ELSE RAdd(Head(s), RSumSeq(Tail(s)))

\* --------------------------------------------- bounds of the training model
\* most worker processes mpi.fork may start
MaxProcs == 2
\* samples of the dataset
NSamples == 4
\* size of the focal subset (the call passes 1000; scaled to the dataset)
FocalSize == 2

\* ------------------------------------------------------- program constants
EpochsFocal == 20
EpochsPlain == 5

Samples == 1 .. NSamples

\* ------------------------------------------------ collaborators (external)
\* The simulator is deterministic: the loss of a rollout depends on the
\* sample and on the model's parameters w, the raw state gradient on the
\* sample; nanSet holds the pairs <<sample, epoch parity>> at which the
\* adjoint pass blows up to NaN.
sim_loss(s, w) == s + (Abs(w.n) % 3)
sim_raw_grad(s, e, nanSet) ==
    [k \in 1 .. NPart |->
        IF <<s, e % 2>> \in nanSet /\ k = 1 THEN NaN
        ELSE Num(IF s % 3 = 0 THEN -2 ELSE 3)]

\* the inputs of the coordinator for sample s under parameters w; learn_latent's
\* solve_multistep returns the constant 0 as loss_first
TrainInput(kind, s, w, e, nanSet) ==
    [dec |-> [k \in 1 .. NPart |-> s + k],
     assignment |-> [k \in 1 .. NPart |-> k],
     loss_first |-> IF kind = "focal" THEN 1 ELSE 0,
     lossTerms |-> <<sim_loss(s, w)>>,
     rawGrad |-> sim_raw_grad(s, e, nanSet)]

TrainHeap(s) ==
    [r \in Refs |->
        CASE r = "state"   -> <<[k \in 1 .. NPart |-> s], <<>>, <<>>, <<>>, <<>>>>
          [] r = "targets" -> <<[k \in 1 .. NPart |-> s]>>
          [] r = "actions" -> <<s>>
          [] OTHER         -> <<>>]

\* state.backward(gradient): the parameter gradient the chain rule leaves in
\* p.grad after zero_grad (the decoder's Jacobian is taken as all ones)
RECURSIVE SumV(_)
SumV(g) == IF g = <<>> THEN 0 ELSE Head(g).v + SumV(Tail(g))
backward(g) == RInt(SumV(g))

\* optimizer.step() of torch.optim.Rprop: a unit step against the sign of p.grad
optimizer_step(w, grad) == RAdd(w, RInt(-RSign(grad)))

\* DataLoader(dataset, batch_size = n): batches of n consecutive samples, the
\* last one shorter; mpi.batch_collate hands process p its element of the batch
NumBatches(loader, n) == (Len(loader) + n - 1) \div n
batch_collate(loader, b, p, n) ==
    LET size == Min(n, Len(loader) - b * n)
    IN  loader[b * n + 1 + (p % size)]

\* mpi.avg(x, base): sum of x over the processes divided by the sum of base
mpi_avg(cs, n) ==
    LET xs == [k \in 1 .. n |-> RInt(cs[k - 1].x)]
        bs == [k \in 1 .. n |-> RInt(cs[k - 1].base)]
        b  == RSumSeq(bs).n
    IN  IF b = 0 THEN RInt(0) ELSE RDiv(RSumSeq(xs), b)

\* mpi.avg of rational contributions with base 1 (the final loss average)
mpi_avg_rat(xs, n) == RDiv(RSumSeq([k \in 1 .. n |-> xs[k - 1]]), n)

\* mpi.avg_grads(model): every process ends with the mean of all p.grad
mpi_avg_grads(grads, n) == RDiv(RSumSeq([k \in 1 .. n |-> grads[k - 1]]), n)

\* mpi.sync_params(model): every process ends with the same parameters
mpi_sync_params(ws, n) == RDiv(RSumSeq([k \in 1 .. n |-> ws[k - 1]]), n)

\* mpi.gather_loss_id(index, loss): the (index, loss) pairs of all processes,
\* handed to every process (the Loss Table is mutated by every process)
mpi_gather_loss_id(cs, n) ==
    Some([k \in 1 .. n |-> [idx |-> cs[k - 1].idx, loss |-> cs[k - 1].x]])

\* mpi.sync_loss(table): every process ends with the same table
mpi_sync_loss(tables, n) == tables[0]

\* dataset.recordLoss(idxs, losses)
RECURSIVE recordLoss(_, _)
recordLoss(table, data) ==
    IF data = <<>> THEN table
    ELSE recordLoss([table EXCEPT ![Head(data).idx] = Head(data).loss], Tail(data))

\* dataset.getSubset(size): the min(size, N) samples of highest recorded loss
\* (ties: lower index first), highest first
RECURSIVE TopK(_, _, _)
TopK(table, pool, k) ==
    IF k = 0 \/ pool = {} THEN <<>>
    ELSE LET best == CHOOSE s \in pool : \A u \in pool :
                        table[s] > table[u] \/ (table[s] = table[u] /\ s <= u)
         IN  <<best>> \o TopK(table, pool \ {best}, k - 1)
getSubset(table, size) == TopK(table, DOMAIN table, size)

\* _update_focal_scheme after its mpi.sync_loss, lines 232-234: the dataloader
\* over dataset.getSubset(size)
update_focal_scheme_all(table, size) == [k \in 1 .. Cardinality(DOMAIN table) |-> k]
update_focal_scheme(table, size) == getSubset(table, size)

\* ------------------------------------------------------ start-up of a run
\* lines 255-275 (learn_latent 213-233): the worker count is decided and
\* mpi.fork is called; then the dataset and its dataloader, the simulator
\* environment, the model, the optimizer and the Solver are constructed
StartupStepsLateFork ==
    <<"dataset", "env", "model", "best_mpi_subprocess_num", "fork",
      "optimizer", "solver">>
StartupSteps ==
    <<"best_mpi_subprocess_num", "fork", "dataset", "env", "model",
      "optimizer", "solver">>
\* the steps up to and including the return of mpi.fork, and those after it
ForkIndex(steps) == CHOOSE k \in DOMAIN steps : steps[k] = "fork"
UpToFork(steps) == SubSeq(steps, 1, ForkIndex(steps))
AfterFork(steps) == SubSeq(steps, ForkIndex(steps) + 1, Len(steps))

\* ------------------------------------------------ decisions of the loops
\* line 290: if use_grad[0] (learn_latent has no evaluation mode)
grad_mode_never(kind, ug) == FALSE
grad_mode_always(kind, ug) == TRUE
grad_mode(kind, ug) == kind = "plain" \/ ug

\* _update_network_mpi: focal calls mpi.avg_grads unconditionally (line 163),
\* learn_latent only with more than one process (line 121)
calls_avg_grads(kind, n) == kind = "focal" \/ n > 1

\* if mpi.num_procs() > 1: mpi.sync_params(model)
should_sync_never(n) == FALSE
should_sync(n) == n > 1

\* if result_state is not None and gradient is not None
usable_always(ret) == TRUE
usable(ret) == ret.state.some /\ ret.gradient.some

\* lines 297-302: what a gradient batch adds to procAvgLoss[i] and to
\* efficientBatchCnt, and what it hands to mpi.avg
loss_increment(ret) == IF usable(ret) THEN ret.loss ELSE 0
count_increment(ret) == IF usable(ret) THEN 1 ELSE 0
avg_contribution(ret) ==
    IF usable(ret) THEN [x |-> ret.loss, base |-> 1, idx |-> 0]
    ELSE [x |-> 0, base |-> 0, idx |-> 0]

\* lines 328-334: the mode switch at the end of epoch i
enters_grad_shifted(i) == i % 5 = 1
enters_grad(i) == i % 5 = 0
leaves_grad_early(i) == i % 5 = 3
leaves_grad_never(i) == FALSE
leaves_grad(i) == i % 5 = 4

\* line 326: procAvgLoss[i] /= efficientBatchCnt
epoch_divisor_all(nBatches, nEfficient) == nBatches
epoch_divisor(nBatches, nEfficient) == nEfficient

\* learn_latent, lines 275-277: rank 0 checkpoints at these values of total_batch
CheckpointBatches == {5, 10, 1000}

\* if mpi.proc_id() == 0 (the guard of every torch.save)
is_root_any(p) == TRUE
is_root(p) == p = 0

Epochs(kind) == IF kind = "focal" THEN EpochsFocal ELSE EpochsPlain

\* steps = args.horizon handed to the Solver of the training loops
TrainSteps == Configured(1)

\* the batches of an epoch seen so far: each one's loss and whether usable
HistAdd(h, e, entry) ==
    IF h.epoch = e THEN [h EXCEPT !.entries = Append(@, entry)]
    ELSE [epoch |-> e, entries |-> <<entry>>]

\* ================================ the single-agent optimizer (solver.py)
\* most iterations cfg.n_iters
MaxIters == 3
\* longest action sequence (cfg.horizon, or the length of init_actions)
MaxH == 2

\* best_loss = 1e10; losses are counted in units of 1e7, so 1e10 is 1000
BestLossInit == 1000

\* the losses a gradient rollout may report, in the same units: small ones,
\* one equal to the initial best_loss and one above it
LossVals == {1, 2, BestLossInit, BestLossInit + 1}

\* ------------------------------------- the simulator (TaichiEnv), external
\* Its state is one number; a step adds the action to it. Every call the
\* solver makes is appended to the log, with the markers of the solver's own
\* operations (forward, optim.step, callback, forward_nograd, np.save).
Event(op, arg) == [op |-> op, arg |-> arg]
Logged(env, op, arg) == [env EXCEPT !.log = Append(@, Event(op, arg))]
sim_get_state(env) == Logged(env, "get_state", <<env.x>>)
sim_set_state(env, s) == [x |-> s, log |-> Append(env.log, Event("set_state", <<s>>))]
sim_step(env, a) == [x |-> env.x + a, log |-> Append(env.log, Event("step", <<a>>))]
sim_compute_loss(env) == Logged(env, "compute_loss", <<>>)
sim_save_current_state(env, idx) == Logged(env, "save_current_state", <<idx, env.x>>)
\* env.primitives.get_grad(n): one gradient per action
sim_get_grad(n) == [k \in 1 .. n |-> 1]

\* the optimizer of OPTIMS (Adam, Momentum), external: step(grads) returns the
\* next action sequence, of the same length
optim_step(actions, grads) == [k \in DOMAIN actions |-> actions[k] - grads[k]]

\* ------------------------------------------------- Solver.init_actions
\* lines 86-93: a uniform draw of shape (horizon, action_dim), or
\* NotImplementedError for any other sampler
init_actions_any_sampler(sampler, horizon, draw) ==
    [raised |-> FALSE, val |-> [k \in 1 .. horizon |-> draw]]
init_actions(sampler, horizon, draw) ==
    IF sampler = "uniform"
    THEN [raised |-> FALSE, val |-> [k \in 1 .. horizon |-> draw]]
    ELSE [raised |-> TRUE, val |-> <<>>]

\* actions.copy(): a new array, which later writes to `actions` cannot reach
ndarray_ref(a) == [some |-> TRUE, alias |-> TRUE, val |-> a]
ndarray_copy(a) == [some |-> TRUE, alias |-> FALSE, val |-> a]
NoArray == [some |-> FALSE, alias |-> FALSE, val |-> <<>>]

\* ---------------------------------------------------- Solver.solve.forward
\* lines 37-48; st holds env, total_steps, pc_cnt, action_buffer
RECURSIVE forward_steps(_, _, _)
forward_steps(st, actions, i) ==
    IF i > Len(actions) THEN st
    ELSE forward_steps(
           [st EXCEPT !.env = sim_compute_loss(sim_step(@, actions[i])),
                      !.total_steps = @ + 1],
           actions, i + 1)
forward_noreset(sim_state, actions, st) ==
    forward_steps([st EXCEPT !.env = Logged(@, "forward", actions)], actions, 1)
forward(sim_state, actions, st) ==
    forward_steps([st EXCEPT !.env = sim_set_state(Logged(@, "forward", actions),
                                                   sim_state)],
                  actions, 1)

\* --------------------------------------------- Solver.solve.forward_nograd
\* lines 50-64: per action a snapshot under index pc_cnt, the action into
\* action_buffer, a step; then the zero padding and the final snapshot. With
\* no action at all, line 62 reads the loop variable i before it was bound
\* and raises UnboundLocalError.
RECURSIVE nograd_steps(_, _, _)
nograd_steps(st, action, i) ==
    IF i > Len(action) THEN st
    ELSE nograd_steps(
           [st EXCEPT !.env = sim_compute_loss(sim_step(
                                 sim_save_current_state(@, st.pc_cnt), action[i])),
                      !.action_buffer = Append(@, action[i]),
                      !.total_steps = @ + 1,
                      !.pc_cnt = @ + 1],
           action, i + 1)
forward_nograd_nopad(sim_state, action, st) ==
    LET s0 == [st EXCEPT !.env = sim_set_state(Logged(@, "forward_nograd", action),
                                               sim_state)]
        s1 == nograd_steps(s0, action, 1)
    IN  IF Len(action) = 0 THEN [s1 EXCEPT !.raised = "UnboundLocalError"]
        ELSE [s1 EXCEPT !.env = sim_save_current_state(@, s1.pc_cnt),
                        !.pc_cnt = @ + 1]
forward_nograd(sim_state, action, st) ==
    LET s0 == [st EXCEPT !.env = sim_set_state(Logged(@, "forward_nograd", action),
                                               sim_state)]
        s1 == nograd_steps(s0, action, 1)
    IN  IF Len(action) = 0 THEN [s1 EXCEPT !.raised = "UnboundLocalError"]
        ELSE [s1 EXCEPT !.action_buffer = Append(@, 0),
                        !.env = sim_save_current_state(@, s1.pc_cnt),
                        !.pc_cnt = @ + 1]

\* line 79: the archive rollout runs the actions optim.step returned (line 76),
\* not the ones kept in self.params before the step (line 71)
archive_actions_stale(params, actions) == params.val
archive_actions(params, actions) == actions

\* line 73: if loss < best_loss
improves_always(loss, best_loss) == TRUE
improves(loss, best_loss) == loss < best_loss

\* ------------------------------------------------------------------ state
VARIABLES
    rpc,      \* Rollout Coordinator call: "off", "ready", then "returned" or "raised"
    rop,      \* the operation called: "none", "solve_multistep", "exec_multistep"
    rself,    \* self.steps of the Solver
    rin,      \* the inputs the collaborators decide for this call
    heap,     \* the caller's state / actions / targets lists (and state_hat)
    heap0,    \* the heap as it was when the call was made
    renv,     \* the simulator as the call left it
    rout,     \* the returned tuple
    loop,     \* the training loop run: "off", "plain" (learn_latent), "focal"
    tn,       \* mpi.num_procs()
    nanSet,   \* the <<sample, epoch parity>> pairs whose state gradient is NaN
    pc,       \* per process: where it is in the loop
    ep,       \* per process: the epoch index i
    batchCnt, \* per process: batchCnt, the position in the dataloader
    efficientBatchCnt,
    use_grad, \* per process: use_grad[0]
    dataloader, \* per process: the samples its dataloader iterates, in order
    procAvgLoss, \* per process: the list procAvgLoss
    params,   \* per process: the model's parameters
    pgrad,    \* per process: p.grad of the parameters
    loss_table, \* per process: dataset.loss_table
    res,      \* per process: the coordinator's result for the batch and its sample
    contrib,  \* per process: what it handed to the collective it waits in
    gathered, \* per process: what mpi.gather_loss_id returned, or None
    batchLoss, \* per process: batchLoss
    total_batch, \* per process: total_batch (learn_latent)
    totalAverageLoss, \* per process
    files,    \* checkpoint files written: [kind, tag, rank]
    calls,    \* per process: the operations of the batch it is in, in order
    hist,     \* per process: the epoch it last ran a batch in, and each batch's
              \* loss and whether the result was usable
    built,    \* per process: the start-up steps it has run, in order
    scfg,     \* single-agent Solver.solve: the call's configuration and inputs
    spc,      \* where the call is: "off", "call", "loop", "step", "archive",
              \* "returned", "raised"
    sol,      \* the fields and locals of Solver.solve
    senv      \* the simulator of the single-agent solver and the calls it saw

rvars == <<rpc, rop, rself, rin, heap, heap0, renv, rout>>
tvars == <<loop, tn, nanSet, pc, ep, batchCnt, efficientBatchCnt, use_grad,
           dataloader, procAvgLoss, params, pgrad, loss_table, res, contrib,
           gathered, batchLoss, total_batch, totalAverageLoss, files, calls, hist,
           built>>
svars == <<scfg, spc, sol, senv>>
vars == <<rpc, rop, rself, rin, heap, heap0, renv, rout,
          loop, tn, nanSet, pc, ep, batchCnt, efficientBatchCnt, use_grad,
          dataloader, procAvgLoss, params, pgrad, loss_table, res, contrib,
          gathered, batchLoss, total_batch, totalAverageLoss, files, calls, hist,
          built, scfg, spc, sol, senv>>

Procs == 0 .. tn - 1

NoRet == [state |-> None, gradient |-> None, loss_first |-> 0, loss |-> 0,
          raised |-> FALSE]
NoContrib == [x |-> 0, base |-> 0, idx |-> 0]

\* the state of a run of kind `kind` with n processes right after construction
\* (lines 250-277): full-dataset dataloader, evaluation mode, zeroed losses
TrainStart(kind, n, nans) ==
    /\ loop = kind
    /\ tn = n
    /\ nanSet = nans
    /\ pc = [p \in 0 .. n - 1 |-> IF kind = "off" THEN "off" ELSE "start"]
    /\ ep = [p \in 0 .. n - 1 |-> 0]
    /\ batchCnt = [p \in 0 .. n - 1 |-> 0]
    /\ efficientBatchCnt = [p \in 0 .. n - 1 |-> 0]
    /\ use_grad = [p \in 0 .. n - 1 |-> FALSE]
    /\ dataloader = [p \in 0 .. n - 1 |-> [k \in 1 .. NSamples |-> k]]
    /\ procAvgLoss = [p \in 0 .. n - 1 |-> [k \in 1 .. Epochs(kind) |-> RInt(0)]]
    /\ params = [p \in 0 .. n - 1 |-> RInt(0)]
    /\ pgrad = [p \in 0 .. n - 1 |-> RInt(0)]
    /\ loss_table = [p \in 0 .. n - 1 |-> [s \in Samples |-> 0]]
    /\ res = [p \in 0 .. n - 1 |-> [ret |-> NoRet, idx |-> 0]]
    /\ contrib = [p \in 0 .. n - 1 |-> NoContrib]
    /\ gathered = [p \in 0 .. n - 1 |-> None]
    /\ batchLoss = [p \in 0 .. n - 1 |-> RInt(0)]
    /\ total_batch = [p \in 0 .. n - 1 |-> 0]
    /\ totalAverageLoss = [p \in 0 .. n - 1 |-> RInt(0)]
    /\ files = {}
    /\ calls = [p \in 0 .. n - 1 |-> <<>>]
    /\ hist = [p \in 0 .. n - 1 |-> [epoch |-> -1, entries |-> <<>>]]
    /\ built = [p \in 0 .. n - 1 |-> <<>>]

\* no call of the single-agent Solver.solve is in progress
SolveOff ==
    /\ scfg = <<>>
    /\ spc = "off"
    /\ sol = <<>>
    /\ senv = <<>>

RolloutOff ==
    /\ rpc = "off"
    /\ rop = "none"
    /\ rself = Unset
    /\ rin = <<>>
    /\ heap = <<>>
    /\ heap0 = <<>>
    /\ renv = EmptyEnv
    /\ rout = NoRet

\* ------------------------------------------------ the coordinator's calls
Frame(a) == [k \in 1 .. NPart |-> a + k - 1]
GradVals == {NaN, Num(-3), Num(-1), Num(0), Num(1), Num(2)}
Perms == {f \in [1 .. NPart -> 1 .. NPart] : \A a, b \in 1 .. NPart : f[a] = f[b] => a = b}
StepChoices == {Unset} \cup {Configured(s) : s \in -1 .. MaxSteps}

\* a sample as the dataloader yields it: five frames, L targets, L actions
SampleHeap(x0, L) ==
    [r \in Refs |->
        CASE r = "state"   -> <<Frame(x0), Frame(30), Frame(40), Frame(50), Frame(60)>>
          [] r = "targets" -> [i \in 1 .. L |-> Frame(10 + i)]
          [] r = "actions" -> [i \in 1 .. L |-> 20 + i]
          [] OTHER         -> <<>>]

RolloutInit ==
    /\ rpc = "ready"
    /\ rop = "none"
    /\ rself \in StepChoices
    /\ \E L \in 1 .. MaxLen, x0 \in {0, 5} :
          /\ heap = SampleHeap(x0, L)
          /\ rin \in [dec : {Frame(7)}, assignment : Perms,
                      loss_first : {4},
                      lossTerms : {[i \in 1 .. L |-> i]},
                      rawGrad : [1 .. NPart -> GradVals]]
    /\ heap0 = heap
    /\ renv = EmptyEnv
    /\ rout = NoRet
    /\ TrainStart("off", 1, {})
    /\ SolveOff

CallSolveMultistep ==
    /\ rpc = "ready"
    /\ LET r == solve_multistep(heap, rself, rin)
       IN  /\ heap' = r.heap
           /\ renv' = r.env
           /\ rout' = r.ret
           /\ rpc' = IF r.ret.raised THEN "raised" ELSE "returned"
    /\ rop' = "solve_multistep"
    /\ UNCHANGED <<rself, rin, heap0>>
    /\ UNCHANGED tvars
    /\ UNCHANGED svars

CallExecMultistep ==
    /\ rpc = "ready"
    /\ LET r == exec_multistep(heap, rself, rin)
       IN  /\ heap' = r.heap
           /\ renv' = r.env
           /\ rout' = r.ret
           /\ rpc' = IF r.ret.raised THEN "raised" ELSE "returned"
    /\ rop' = "exec_multistep"
    /\ UNCHANGED <<rself, rin, heap0>>
    /\ UNCHANGED tvars
    /\ UNCHANGED svars

RolloutNext == CallSolveMultistep \/ CallExecMultistep

SpecRollout == RolloutInit /\ [][RolloutNext]_vars

\* ------------------------------------------------------ the training loops
\* A process runs on its own between two collective calls; a collective
\* returns, on every process at once, when all processes have entered it.
TrainInit ==
    /\ RolloutOff
    /\ SolveOff
    /\ \E kind \in {"plain", "focal"}, n \in 1 .. MaxProcs, nans \in SUBSET (Samples \X {0, 1}) :
          TrainStart(kind, n, nans)

\* lines 250-255: before and including mpi.fork; the process continues as
\* one of the tn workers
Fork(p) ==
    /\ pc[p] = "start"
    /\ built' = [built EXCEPT ![p] = @ \o UpToFork(StartupSteps)]
    /\ pc' = [pc EXCEPT ![p] = "forked"]
    /\ UNCHANGED <<loop, tn, nanSet, ep, batchCnt, efficientBatchCnt, use_grad,
                   dataloader, procAvgLoss, params, pgrad, loss_table, res, contrib,
                   gathered, batchLoss, total_batch, totalAverageLoss, files, calls,
                   hist>>
    /\ UNCHANGED rvars
    /\ UNCHANGED svars

\* lines 256-277: the worker constructs its objects and enters the epoch loop
Construct(p) ==
    /\ pc[p] = "forked"
    /\ built' = [built EXCEPT ![p] = @ \o AfterFork(StartupSteps)]
    /\ pc' = [pc EXCEPT ![p] = "loop"]
    /\ UNCHANGED <<loop, tn, nanSet, ep, batchCnt, efficientBatchCnt, use_grad,
                   dataloader, procAvgLoss, params, pgrad, loss_table, res, contrib,
                   gathered, batchLoss, total_batch, totalAverageLoss, files, calls,
                   hist>>
    /\ UNCHANGED rvars
    /\ UNCHANGED svars

\* gradient mode, lines 291-302 (learn_latent 248-260): solve_multistep, the
\* running loss, and the entry into mpi.avg (efficientBatchCnt is added after
\* mpi.avg has returned, in Avg)
SolveBatch(p) ==
    /\ pc[p] = "loop"
    /\ batchCnt[p] < NumBatches(dataloader[p], tn)
    /\ grad_mode(loop, use_grad[p])
    /\ LET s == batch_collate(dataloader[p], batchCnt[p], p, tn)
           r == solve_multistep(TrainHeap(s), TrainSteps,
                                TrainInput(loop, s, params[p], ep[p], nanSet)).ret
       IN  /\ res' = [res EXCEPT ![p] = [ret |-> r, idx |-> s]]
           /\ procAvgLoss' = [procAvgLoss EXCEPT
                                ![p][ep[p] + 1] = RAdd(@, RInt(loss_increment(r)))]
           /\ contrib' = [contrib EXCEPT ![p] = avg_contribution(r)]
           /\ hist' = [hist EXCEPT ![p] = HistAdd(@, ep[p],
                          [loss |-> r.loss, ok |-> r.state.some /\ r.gradient.some])]
    /\ calls' = [calls EXCEPT ![p] = <<"solve_multistep", "avg">>]
    /\ pc' = [pc EXCEPT ![p] = "w_avg"]
    /\ UNCHANGED <<loop, tn, nanSet, ep, batchCnt, efficientBatchCnt, use_grad,
                   dataloader, params, pgrad, loss_table, gathered, batchLoss,
                   total_batch, totalAverageLoss, files>>
    /\ UNCHANGED rvars
    /\ UNCHANGED svars
    /\ UNCHANGED built

\* evaluation mode, lines 314-319: exec_multistep and the entry into
\* mpi.gather_loss_id of _update_loss
ExecBatch(p) ==
    /\ pc[p] = "loop"
    /\ batchCnt[p] < NumBatches(dataloader[p], tn)
    /\ ~grad_mode(loop, use_grad[p])
    /\ LET s == batch_collate(dataloader[p], batchCnt[p], p, tn)
           r == exec_multistep(TrainHeap(s), TrainSteps,
                               TrainInput(loop, s, params[p], ep[p], nanSet)).ret
       IN  /\ res' = [res EXCEPT ![p] = [ret |-> r, idx |-> s]]
           /\ contrib' = [contrib EXCEPT ![p] = [x |-> r.loss, base |-> 1, idx |-> s]]
    /\ calls' = [calls EXCEPT ![p] = <<"exec_multistep", "gather_loss_id">>]
    /\ pc' = [pc EXCEPT ![p] = "w_gather"]
    /\ UNCHANGED <<loop, tn, nanSet, ep, batchCnt, efficientBatchCnt, use_grad,
                   dataloader, procAvgLoss, params, pgrad, loss_table, gathered,
                   batchLoss, total_batch, totalAverageLoss, files, hist>>
    /\ UNCHANGED rvars
    /\ UNCHANGED svars
    /\ UNCHANGED built

\* the collective mpi.gather_loss_id
GatherLossId ==
    /\ \A p \in Procs : pc[p] = "w_gather"
    /\ gathered' = [p \in Procs |-> mpi_gather_loss_id(contrib, tn)]
    /\ pc' = [p \in Procs |-> "record"]
    /\ UNCHANGED <<loop, tn, nanSet, ep, batchCnt, efficientBatchCnt, use_grad,
                   dataloader, procAvgLoss, params, pgrad, loss_table, res, contrib,
                   batchLoss, total_batch, totalAverageLoss, files, calls, hist>>
    /\ UNCHANGED rvars
    /\ UNCHANGED svars
    /\ UNCHANGED built

\* lines 225-227 and 320-321: recordLoss when the gather handed this process
\* the data (if data != None), the running loss, the entry into mpi.avg
RecordLoss(p) ==
    /\ pc[p] = "record"
    /\ loss_table' = IF gathered[p] # None
                     THEN [loss_table EXCEPT ![p] = recordLoss(@, gathered[p].val)]
                     ELSE loss_table
    /\ procAvgLoss' = [procAvgLoss EXCEPT
                          ![p][ep[p] + 1] = RAdd(@, RInt(res[p].ret.loss))]
    /\ contrib' = [contrib EXCEPT ![p] = [x |-> res[p].ret.loss, base |-> 1, idx |-> 0]]
    /\ hist' = [hist EXCEPT ![p] = HistAdd(@, ep[p],
                   [loss |-> res[p].ret.loss, ok |-> TRUE])]
    /\ calls' = [calls EXCEPT ![p] = @ \o (IF gathered[p] # None
                                            THEN <<"recordLoss", "avg">>
                                            ELSE <<"avg">>)]
    /\ pc' = [pc EXCEPT ![p] = "w_avg"]
    /\ UNCHANGED <<loop, tn, nanSet, ep, batchCnt, efficientBatchCnt, use_grad,
                   dataloader, params, pgrad, res, gathered, batchLoss, total_batch,
                   totalAverageLoss, files>>
    /\ UNCHANGED rvars
    /\ UNCHANGED svars
    /\ UNCHANGED built

\* the collective mpi.avg of the batch loss, and the statement after it:
\* efficientBatchCnt += 1 (lines 300 and 322; learn_latent 258), in gradient
\* mode only for a usable result
Avg ==
    /\ \A p \in Procs : pc[p] = "w_avg"
    /\ batchLoss' = [p \in Procs |-> mpi_avg(contrib, tn)]
    /\ efficientBatchCnt' =
          [p \in Procs |->
              efficientBatchCnt[p]
              + (IF grad_mode(loop, use_grad[p]) THEN count_increment(res[p].ret)
                 ELSE 1)]
    /\ pc' = [p \in Procs |->
                IF grad_mode(loop, use_grad[p]) THEN "update" ELSE "batch_end"]
    /\ UNCHANGED <<loop, tn, nanSet, ep, batchCnt, use_grad,
                   dataloader, procAvgLoss, params, pgrad, loss_table, res, contrib,
                   gathered, total_batch, totalAverageLoss, files, calls, hist>>
    /\ UNCHANGED rvars
    /\ UNCHANGED svars
    /\ UNCHANGED built

\* _update_network_mpi up to mpi.avg_grads: zero_grad and backward only for a
\* usable result
UpdateNetwork(p) ==
    /\ pc[p] = "update"
    /\ LET ok == usable(res[p].ret)
           ag == calls_avg_grads(loop, tn)
       IN  /\ pgrad' = IF ok
                       THEN [pgrad EXCEPT ![p] = backward(res[p].ret.gradient.val)]
                       ELSE pgrad
           /\ calls' = [calls EXCEPT ![p] =
                          @ \o (IF ok THEN <<"zero_grad", "backward">> ELSE <<>>)
                            \o (IF ag THEN <<"avg_grads">> ELSE <<>>)]
           /\ pc' = [pc EXCEPT ![p] = IF ag THEN "w_avg_grads" ELSE "opt"]
    /\ UNCHANGED <<loop, tn, nanSet, ep, batchCnt, efficientBatchCnt, use_grad,
                   dataloader, procAvgLoss, params, loss_table, res, contrib,
                   gathered, batchLoss, total_batch, totalAverageLoss, files, hist>>
    /\ UNCHANGED rvars
    /\ UNCHANGED svars
    /\ UNCHANGED built

\* the collective mpi.avg_grads
AvgGrads ==
    /\ \A p \in Procs : pc[p] = "w_avg_grads"
    /\ pgrad' = [p \in Procs |-> mpi_avg_grads(pgrad, tn)]
    /\ pc' = [p \in Procs |-> "opt"]
    /\ UNCHANGED <<loop, tn, nanSet, ep, batchCnt, efficientBatchCnt, use_grad,
                   dataloader, procAvgLoss, params, loss_table, res, contrib,
                   gathered, batchLoss, total_batch, totalAverageLoss, files,
                   calls, hist>>
    /\ UNCHANGED rvars
    /\ UNCHANGED svars
    /\ UNCHANGED built

\* the rest of _update_network_mpi (optimizer.step for a usable result) and
\* the entry into mpi.sync_params
OptStep(p) ==
    /\ pc[p] = "opt"
    /\ LET ok == usable(res[p].ret)
           sy == should_sync(tn)
       IN  /\ params' = IF ok
                        THEN [params EXCEPT ![p] = optimizer_step(@, pgrad[p])]
                        ELSE params
           /\ calls' = [calls EXCEPT ![p] =
                          @ \o (IF ok THEN <<"step">> ELSE <<>>)
                            \o (IF sy THEN <<"sync_params">> ELSE <<>>)]
           /\ pc' = [pc EXCEPT ![p] = IF sy THEN "w_sync_params" ELSE "batch_end"]
    /\ UNCHANGED <<loop, tn, nanSet, ep, batchCnt, efficientBatchCnt, use_grad,
                   dataloader, procAvgLoss, pgrad, loss_table, res, contrib,
                   gathered, batchLoss, total_batch, totalAverageLoss, files, hist>>
    /\ UNCHANGED rvars
    /\ UNCHANGED svars
    /\ UNCHANGED built

\* the collective mpi.sync_params
SyncParams ==
    /\ \A p \in Procs : pc[p] = "w_sync_params"
    /\ params' = [p \in Procs |-> mpi_sync_params(params, tn)]
    /\ pc' = [p \in Procs |-> "batch_end"]
    /\ UNCHANGED <<loop, tn, nanSet, ep, batchCnt, efficientBatchCnt, use_grad,
                   dataloader, procAvgLoss, pgrad, loss_table, res, contrib,
                   gathered, batchLoss, total_batch, totalAverageLoss, files,
                   calls, hist>>
    /\ UNCHANGED rvars
    /\ UNCHANGED svars
    /\ UNCHANGED built

\* the end of the loop body: rank 0 reports (and, in learn_latent, checkpoints
\* at total_batch 5, 10, 1000); batchCnt += 1; total_batch += 1
BatchEnd(p) ==
    /\ pc[p] = "batch_end"
    /\ files' = IF is_root(p) /\ loop = "plain" /\ total_batch[p] \in CheckpointBatches
                THEN files \cup {[kind |-> "model", tag |-> total_batch[p], rank |-> p],
                                 [kind |-> "encoder", tag |-> total_batch[p], rank |-> p]}
                ELSE files
    /\ batchCnt' = [batchCnt EXCEPT ![p] = @ + 1]
    /\ total_batch' = IF loop = "plain"
                      THEN [total_batch EXCEPT ![p] = @ + 1] ELSE total_batch
    /\ pc' = [pc EXCEPT ![p] = "loop"]
    /\ UNCHANGED <<loop, tn, nanSet, ep, efficientBatchCnt, use_grad, dataloader,
                   procAvgLoss, params, pgrad, loss_table, res, contrib, gathered,
                   batchLoss, totalAverageLoss, calls, hist>>
    /\ UNCHANGED rvars
    /\ UNCHANGED svars
    /\ UNCHANGED built

\* the next iteration of `for i in range(epochs)`, or, after the last one,
\* lines 337-339: the process-local mean and the entry into the final mpi.avg
Advance(p, pal) ==
    /\ ep' = [ep EXCEPT ![p] = @ + 1]
    /\ IF ep[p] + 1 < Epochs(loop)
       THEN /\ batchCnt' = [batchCnt EXCEPT ![p] = 0]
            /\ efficientBatchCnt' = [efficientBatchCnt EXCEPT ![p] = 0]
            /\ pc' = [pc EXCEPT ![p] = "loop"]
            /\ UNCHANGED totalAverageLoss
       ELSE /\ totalAverageLoss' = [totalAverageLoss EXCEPT
                                      ![p] = RDiv(RSumSeq(pal), Len(pal))]
            /\ pc' = [pc EXCEPT ![p] = "w_final_avg"]
            /\ UNCHANGED <<batchCnt, efficientBatchCnt>>

\* the end of epoch i, lines 326-334 (learn_latent 280-281): the division,
\* which raises ZeroDivisionError for a zero count, and the mode switch
EpochEnd(p) ==
    /\ pc[p] = "loop"
    /\ batchCnt[p] >= NumBatches(dataloader[p], tn)
    /\ IF epoch_divisor(batchCnt[p], efficientBatchCnt[p]) = 0
       THEN /\ pc' = [pc EXCEPT ![p] = "crashed"]
            /\ UNCHANGED <<ep, batchCnt, efficientBatchCnt, use_grad, procAvgLoss,
                           totalAverageLoss>>
       ELSE LET i == ep[p]
                pal == [procAvgLoss[p] EXCEPT ![i + 1] =
                          RDiv(@, epoch_divisor(batchCnt[p], efficientBatchCnt[p]))]
            IN  /\ procAvgLoss' = [procAvgLoss EXCEPT ![p] = pal]
                /\ IF loop = "focal" /\ enters_grad(i)
                   THEN /\ pc' = [pc EXCEPT ![p] = "w_sync_loss"]
                        /\ UNCHANGED <<ep, batchCnt, efficientBatchCnt, use_grad,
                                       totalAverageLoss>>
                   ELSE /\ use_grad' = IF loop = "focal" /\ leaves_grad(i)
                                       THEN [use_grad EXCEPT ![p] = FALSE]
                                       ELSE use_grad
                        /\ Advance(p, pal)
    /\ UNCHANGED <<loop, tn, nanSet, dataloader, params, pgrad, loss_table, res,
                   contrib, gathered, batchLoss, total_batch, files, calls, hist>>
    /\ UNCHANGED rvars
    /\ UNCHANGED svars
    /\ UNCHANGED built

\* the collective mpi.sync_loss of _update_focal_scheme
SyncLoss ==
    /\ \A p \in Procs : pc[p] = "w_sync_loss"
    /\ loss_table' = [p \in Procs |-> mpi_sync_loss(loss_table, tn)]
    /\ pc' = [p \in Procs |-> "rebuild"]
    /\ UNCHANGED <<loop, tn, nanSet, ep, batchCnt, efficientBatchCnt, use_grad,
                   dataloader, procAvgLoss, params, pgrad, res, contrib, gathered,
                   batchLoss, total_batch, totalAverageLoss, files, calls, hist>>
    /\ UNCHANGED rvars
    /\ UNCHANGED svars
    /\ UNCHANGED built

\* the rest of _update_focal_scheme and line 332: the dataloader over the
\* focal subset, gradient mode
Rebuild(p) ==
    /\ pc[p] = "rebuild"
    /\ dataloader' = [dataloader EXCEPT
                        ![p] = update_focal_scheme(loss_table[p], FocalSize)]
    /\ use_grad' = [use_grad EXCEPT ![p] = TRUE]
    /\ Advance(p, procAvgLoss[p])
    /\ UNCHANGED <<loop, tn, nanSet, procAvgLoss, params, pgrad, loss_table, res,
                   contrib, gathered, batchLoss, total_batch, files, calls, hist>>
    /\ UNCHANGED rvars
    /\ UNCHANGED svars
    /\ UNCHANGED built

\* the collective mpi.avg of the final loss
FinalAvg ==
    /\ \A p \in Procs : pc[p] = "w_final_avg"
    /\ totalAverageLoss' = [p \in Procs |-> mpi_avg_rat(totalAverageLoss, tn)]
    /\ pc' = [p \in Procs |-> "finish"]
    /\ UNCHANGED <<loop, tn, nanSet, ep, batchCnt, efficientBatchCnt, use_grad,
                   dataloader, procAvgLoss, params, pgrad, loss_table, res, contrib,
                   gathered, batchLoss, total_batch, files, calls, hist>>
    /\ UNCHANGED rvars
    /\ UNCHANGED svars
    /\ UNCHANGED built

\* lines 341-344: only rank 0 stores the model and the encoder
Finish(p) ==
    /\ pc[p] = "finish"
    /\ files' = IF is_root(p)
                THEN files \cup {[kind |-> "model", tag |-> -1, rank |-> p],
                                 [kind |-> "encoder", tag |-> -1, rank |-> p]}
                ELSE files
    /\ pc' = [pc EXCEPT ![p] = "done"]
    /\ UNCHANGED <<loop, tn, nanSet, ep, batchCnt, efficientBatchCnt, use_grad,
                   dataloader, procAvgLoss, params, pgrad, loss_table, res, contrib,
                   gathered, batchLoss, total_batch, totalAverageLoss, calls, hist>>
    /\ UNCHANGED rvars
    /\ UNCHANGED svars
    /\ UNCHANGED built

TrainNext ==
    \/ \E p \in Procs : Fork(p)
    \/ \E p \in Procs : Construct(p)
    \/ \E p \in Procs : SolveBatch(p)
    \/ \E p \in Procs : ExecBatch(p)
    \/ GatherLossId
    \/ \E p \in Procs : RecordLoss(p)
    \/ Avg
    \/ \E p \in Procs : UpdateNetwork(p)
    \/ AvgGrads
    \/ \E p \in Procs : OptStep(p)
    \/ SyncParams
    \/ \E p \in Procs : BatchEnd(p)
    \/ \E p \in Procs : EpochEnd(p)
    \/ SyncLoss
    \/ \E p \in Procs : Rebuild(p)
    \/ FinalAvg
    \/ \E p \in Procs : Finish(p)

SpecTrain == TrainInit /\ [][TrainNext]_vars

\* ==================================== Solver.solve of the single-agent optimizer
\* the configurations and inputs of a call: cfg.n_iters, cfg.init_sampler,
\* cfg.horizon, the init_actions argument (None, or an array of `horizon`
\* actions), the number of callbacks, the loss the simulator reports for the
\* gradient rollout of each iteration, the simulator's state before the call,
\* the value np.random.uniform draws, and whether optim.step hands back the
\* array it was given, updated in place
SolveConfigs ==
    [n_iters : 0 .. MaxIters,
     init_sampler : {"uniform", "normal"},
     horizon : 0 .. MaxH,
     given : BOOLEAN,
     ncb : 0 .. 1,
     lossSeq : [1 .. MaxIters -> LossVals],
     x0 : {3},
     draw : {0},
     inplace : BOOLEAN]

GivenActions(h) == [k \in 1 .. h |-> 5 + k]

SolInit ==
    [actions |-> <<>>, params |-> NoArray, best_action |-> NoArray,
     best_loss |-> 0, iter |-> 0, total_steps |-> 0, pc_cnt |-> 0,
     action_buffer |-> <<>>, env_state |-> [some |-> FALSE, state |-> 0],
     loss |-> 0, grads |-> <<>>, ret |-> NoArray,
     saved |-> [some |-> FALSE, val |-> <<>>], raised |-> "none"]

SolveInit ==
    /\ scfg \in SolveConfigs
    /\ spc = "call"
    /\ sol = SolInit
    /\ senv = [x |-> scfg.x0, log |-> <<>>]
    /\ RolloutOff
    /\ TrainStart("off", 1, {})

\* what forward and forward_nograd read and write
RolloutState ==
    [env |-> senv, total_steps |-> sol.total_steps, pc_cnt |-> sol.pc_cnt,
     action_buffer |-> sol.action_buffer, raised |-> "none"]

\* lines 26-35 and 66-69: the initial actions (or NotImplementedError), the
\* optimizer, the snapshot of the environment, the counters, best_action/best_loss
SolveCall ==
    /\ spc = "call"
    /\ LET ia == IF scfg.given
                 THEN [raised |-> FALSE, val |-> GivenActions(scfg.horizon)]
                 ELSE init_actions(scfg.init_sampler, scfg.horizon, scfg.draw)
       IN  IF ia.raised
           THEN /\ spc' = "raised"
                /\ sol' = [sol EXCEPT !.raised = "NotImplementedError"]
                /\ UNCHANGED senv
           ELSE /\ spc' = "loop"
                /\ senv' = sim_get_state(senv)
                /\ sol' = [sol EXCEPT !.actions = ia.val,
                                      !.env_state = [some |-> TRUE, state |-> senv.x],
                                      !.total_steps = 0,
                                      !.pc_cnt = 0,
                                      !.action_buffer = <<>>,
                                      !.best_action = NoArray,
                                      !.best_loss = BestLossInit,
                                      !.iter = 0]
    /\ UNCHANGED scfg
    /\ UNCHANGED <<rvars, tvars>>

\* lines 71-75: self.params, the gradient rollout, best_loss and best_action
IterGradient ==
    /\ spc = "loop"
    /\ sol.iter < scfg.n_iters
    /\ LET st   == forward(sol.env_state.state, sol.actions, RolloutState)
           loss == scfg.lossSeq[sol.iter + 1]
           up   == improves(loss, sol.best_loss)
       IN  /\ senv' = st.env
           /\ sol' = [sol EXCEPT !.params = ndarray_copy(sol.actions),
                                 !.total_steps = st.total_steps,
                                 !.loss = loss,
                                 !.grads = sim_get_grad(Len(sol.actions)),
                                 !.best_loss = IF up THEN loss ELSE @,
                                 !.best_action = IF up THEN ndarray_copy(sol.actions)
                                                 ELSE @]
    /\ spc' = "step"
    /\ UNCHANGED scfg
    /\ UNCHANGED <<rvars, tvars>>

CallbackEvents(n, loss) == [j \in 1 .. n |-> Event("callback", <<j, loss>>)]

\* lines 76-78: optim.step and the callbacks; an array that aliases `actions`
\* follows an in-place step
IterStep ==
    /\ spc = "step"
    /\ LET new == optim_step(sol.actions, sol.grads)
           follow(a) == IF a.some /\ a.alias /\ scfg.inplace
                        THEN [a EXCEPT !.val = new] ELSE a
       IN  /\ sol' = [sol EXCEPT !.actions = new,
                                 !.best_action = follow(@),
                                 !.params = follow(@)]
           /\ senv' = [senv EXCEPT !.log = Append(@, Event("optim.step", new))
                                             \o CallbackEvents(scfg.ncb, sol.loss)]
    /\ spc' = "archive"
    /\ UNCHANGED scfg
    /\ UNCHANGED <<rvars, tvars>>

\* lines 79-80: the archive rollout of the new actions
IterArchive ==
    /\ spc = "archive"
    /\ LET st == forward_nograd(sol.env_state.state,
                                archive_actions(sol.params, sol.actions), RolloutState)
       IN  /\ senv' = st.env
           /\ sol' = [sol EXCEPT !.total_steps = st.total_steps,
                                 !.pc_cnt = st.pc_cnt,
                                 !.action_buffer = st.action_buffer,
                                 !.raised = st.raised,
                                 !.iter = IF st.raised = "none" THEN @ + 1 ELSE @]
           /\ spc' = IF st.raised = "none" THEN "loop" ELSE "raised"
    /\ UNCHANGED scfg
    /\ UNCHANGED <<rvars, tvars>>

\* lines 82-84: the environment back to the snapshot, action.npy, best_action
SolveReturn ==
    /\ spc = "loop"
    /\ sol.iter >= scfg.n_iters
    /\ senv' = Logged(sim_set_state(senv, sol.env_state.state),
                      "np.save", sol.action_buffer)
    /\ sol' = [sol EXCEPT !.saved = [some |-> TRUE, val |-> sol.action_buffer],
                          !.ret = sol.best_action]
    /\ spc' = "returned"
    /\ UNCHANGED scfg
    /\ UNCHANGED <<rvars, tvars>>

SolveNext == SolveCall \/ IterGradient \/ IterStep \/ IterArchive \/ SolveReturn

SpecSolve == SolveInit /\ [][SolveNext]_vars

\* ================================================================ claims
IsPrefix(a, b) == Len(a) <= Len(b) /\ SubSeq(b, 1, Len(a)) = a
IsCollective(c) == c \in {"avg", "gather_loss_id", "avg_grads", "sync_params"}
CollOf(s) == SelectSeq(s, IsCollective)
Has(s, c) == \E k \in DOMAIN s : s[k] = c
InBatch(p) == pc[p] \in {"w_avg", "update", "w_avg_grads", "opt", "w_sync_params",
                         "batch_end", "w_gather", "record"}
IsWaiting(p) == pc[p] \in {"w_avg", "w_gather", "w_avg_grads", "w_sync_params",
                           "w_sync_loss", "w_final_avg"}
Training == loop \in {"plain", "focal"}
Returned(op) == rpc = "returned" /\ rop = op
RolloutLen == Len(heap0["targets"])

\* the collectives a process has issued in the batch it is in agree with those
\* of every peer in the same batch, and a completed batch issued the sequence
\* of its mode (auxiliary to C1: the per-batch part of the claim)
C1_PerBatchSequence ==
    Training =>
      /\ \A p, q \in Procs :
            (InBatch(p) /\ InBatch(q) /\ ep[p] = ep[q] /\ batchCnt[p] = batchCnt[q])
            => (IsPrefix(CollOf(calls[p]), CollOf(calls[q]))
                \/ IsPrefix(CollOf(calls[q]), CollOf(calls[p])))
      /\ \A p \in Procs :
            (pc[p] = "batch_end" /\ tn > 1)
            => CollOf(calls[p]) =
                 (IF Head(calls[p]) = "solve_multistep"
                  THEN <<"avg", "avg_grads", "sync_params">>
                  ELSE <<"gather_loss_id", "avg">>)

\* C1: in both training loops, whatever the pattern of NaN outcomes, all
\* processes issue the same sequence of collective calls, so no process waits
\* in a collective that a peer will never enter (the run does not deadlock).
C1_SameCollectivesNoDeadlock ==
    /\ C1_PerBatchSequence
    /\ Training =>
         \A p, q \in Procs : IsWaiting(p) => pc[q] \notin {"crashed", "done"}

\* C2: solve_multistep returns (None, None, loss_first, loss) when an element
\* of the clamped gradient is NaN, a state and a gradient otherwise, and
\* never raises.
C2_NanGate ==
    Returned("solve_multistep") =>
      LET nanSeen == \E k \in 1 .. NPart : rin.rawGrad[k].nan
      IN  /\ ~rout.raised
          /\ rout.loss_first = rin.loss_first
          /\ rout.loss = renv.loss
          /\ nanSeen => (~rout.state.some /\ ~rout.gradient.some)
          /\ ~nanSeen => (rout.state.some /\ rout.gradient.some)
C2_Witness ==
    /\ Returned("solve_multistep")
    /\ \E k \in 1 .. NPart : rin.rawGrad[k].nan
    /\ \E k \in 1 .. NPart : ~rin.rawGrad[k].nan
    /\ ~rout.state.some

\* C3: in learn_latent_focal the mode changes only where the epoch index i
\* advances: leaving an epoch with i mod 5 = 0 the loop is in gradient mode
\* with the dataloader rebuilt from the focal subset of the synchronized Loss
\* Table; leaving one with i mod 5 = 4 it is in evaluation mode; leaving any
\* other epoch mode and dataloader are as they were.
C3_ModeSwitch ==
    [][loop = "focal" =>
        \A p \in Procs :
          /\ (ep'[p] = ep[p]) =>
                (use_grad'[p] = use_grad[p] /\ dataloader'[p] = dataloader[p])
          /\ (ep'[p] # ep[p]) =>
                /\ ep'[p] = ep[p] + 1
                /\ (ep[p] % 5 = 0) =>
                      /\ pc[p] = "rebuild"
                      /\ use_grad'[p]
                      /\ dataloader'[p] = TopK(loss_table[p], Samples, FocalSize)
                /\ (ep[p] % 5 = 4) =>
                      (~use_grad'[p] /\ dataloader'[p] = dataloader[p])
                /\ (ep[p] % 5 \notin {0, 4}) =>
                      (use_grad'[p] = use_grad[p] /\ dataloader'[p] = dataloader[p])
    ]_vars
C3_Witness ==
    /\ loop = "focal"
    /\ \E p \in Procs :
          /\ ep[p] = 10
          /\ pc[p] = "loop"
          /\ ~use_grad[p]
          /\ Len(dataloader[p]) = Min(FocalSize, NSamples)

\* C4: with more than one process, whenever no process is between its
\* optimizer step and the parameter sync (so at the end of every gradient
\* batch), all processes hold the same parameters.
C4_ParamsIdentical ==
    (Training /\ tn > 1 /\ \A p \in Procs : pc[p] # "w_sync_params")
    => \A p, q \in Procs : params[p] = params[q]
C4_Witness ==
    /\ Training
    /\ tn > 1
    /\ \A p \in Procs : pc[p] = "batch_end"
    /\ \E p, q \in Procs :
          /\ ~usable(res[p].ret) /\ ~Has(calls[p], "step")
          /\ usable(res[q].ret) /\ Has(calls[q], "step")
          /\ pgrad[q].n # 0

\* mean over the processes with a usable result of f (a function on Procs)
UsableProcs == {p \in Procs : usable(res[p].ret)}
MeanUsable(f) ==
    RDiv(RSumSeq([k \in 1 .. tn |-> IF (k - 1) \in UsableProcs THEN f[k - 1] ELSE RInt(0)]),
         Cardinality(UsableProcs))

\* C5: a process whose gradient batch is NaN-gated skips the optimizer step,
\* takes part in every collective of the batch, and is zero-weighted in the
\* loss average and in the gradient average: the others obtain the averages
\* of the usable results alone.
C5_ZeroWeighted ==
    Training =>
      /\ \A p \in Procs :
            (pc[p] = "batch_end" /\ Head(calls[p]) = "solve_multistep"
             /\ ~usable(res[p].ret))
            => /\ ~Has(calls[p], "step")
               /\ Has(calls[p], "avg")
               /\ (calls_avg_grads(loop, tn) => Has(calls[p], "avg_grads"))
      /\ ((\A p \in Procs : pc[p] = "opt")
          /\ UsableProcs # {} /\ UsableProcs # Procs)
         => \A q \in Procs :
               /\ batchLoss[q] = MeanUsable([p \in Procs |-> RInt(res[p].ret.loss)])
               /\ pgrad[q] = MeanUsable([p \in Procs |->
                     IF usable(res[p].ret) THEN backward(res[p].ret.gradient.val)
                     ELSE RInt(0)])

\* C6: the rollout runs L steps when self.steps is unset, min(s, L) when
\* s > 0 and L when s <= 0; it never runs more than L steps and never
\* indexes targets or actions past L - 1.
C6_RolloutLength ==
    rpc \in {"returned", "raised"} =>
      /\ rpc = "returned"
      /\ renv.nsteps = (IF ~rself.set THEN RolloutLen
                        ELSE IF rself.val > 0 THEN Min(rself.val, RolloutLen)
                        ELSE RolloutLen)
      /\ renv.nsteps <= RolloutLen
      /\ ~renv.oob
      /\ \A k \in DOMAIN renv.log : renv.log[k].arg <= RolloutLen - 1
C6_Witness ==
    /\ rpc = "returned"
    /\ rself.set /\ rself.val > 0 /\ rself.val < RolloutLen
    /\ renv.nsteps = rself.val

\* C7: every element of a gradient that solve_multistep returns lies in [-1, 1].
C7_GradientClamped ==
    (Returned("solve_multistep") /\ rout.gradient.some)
    => \A k \in DOMAIN rout.gradient.val :
          /\ ~rout.gradient.val[k].nan
          /\ rout.gradient.val[k].v >= -1
          /\ rout.gradient.val[k].v <= 1
C7_Witness ==
    /\ Returned("solve_multistep")
    /\ rout.gradient.some
    /\ \E k \in 1 .. NPart : rin.rawGrad[k].v > 1
    /\ \E k \in 1 .. NPart : rin.rawGrad[k].v < -1

\* C8: exec_multistep and solve_multistep leave the caller's state, actions
\* and targets as they were; the decoded first frame goes into the copy only,
\* and the copy is what the simulator is reset to.
C8_CallerUnchanged ==
    rpc = "returned" =>
      /\ heap["state"] = heap0["state"]
      /\ heap["actions"] = heap0["actions"]
      /\ heap["targets"] = heap0["targets"]
      /\ heap["state_hat"][1] = reorder(rin.dec, rin.assignment)
      /\ \A k \in 2 .. 5 : heap["state_hat"][k] = heap0["state"][k]
      /\ renv.state = heap["state_hat"]
C8_Witness ==
    /\ Returned("exec_multistep")
    /\ heap["state_hat"][1] # heap0["state"][1]
    /\ heap["state"][1] = heap0["state"][1]

EvalSequence == <<"exec_multistep", "gather_loss_id", "recordLoss", "avg">>
EvalMode(p) == loop = "focal" /\ ~use_grad[p]

\* the state part of C9: in evaluation mode of learn_latent_focal a batch is
\* exec_multistep, the push of its loss into the Loss Table under its sample
\* index, the running loss, the loss average, and nothing else
C9_EvalBatchState ==
    \A p \in Procs :
      (EvalMode(p) /\ InBatch(p)) =>
        /\ IsPrefix(calls[p], EvalSequence)
        /\ (pc[p] \in {"w_avg", "batch_end"}) =>
              /\ loss_table[p][res[p].idx] = res[p].ret.loss
              /\ hist[p].epoch = ep[p]
              /\ hist[p].entries[Len(hist[p].entries)] =
                    [loss |-> res[p].ret.loss, ok |-> TRUE]
              /\ procAvgLoss[p][ep[p] + 1] =
                    RSumSeq([k \in DOMAIN hist[p].entries |->
                               RInt(hist[p].entries[k].loss)])
        /\ (pc[p] = "batch_end") => calls[p] = EvalSequence
\* C9: the state part above holds always, and no step taken while a process
\* is in evaluation mode changes its parameters or their gradients.
C9_EvalNoUpdate ==
    []C9_EvalBatchState
    /\ [][\A p \in Procs :
            EvalMode(p) => (params'[p] = params[p] /\ pgrad'[p] = pgrad[p])]_vars
C9_Witness ==
    \E p \in Procs :
      /\ EvalMode(p)
      /\ ep[p] = 5
      /\ pc[p] = "batch_end"
      /\ params[p] # RInt(0)
      /\ loss_table[p][res[p].idx] = res[p].ret.loss

RECURSIVE OkLosses(_)
OkLosses(es) ==
    IF es = <<>> THEN <<>>
    ELSE (IF Head(es).ok THEN <<RInt(Head(es).loss)>> ELSE <<>>) \o OkLosses(Tail(es))
EpochClosed(p) == ep[p] > hist[p].epoch \/ pc[p] \in {"w_sync_loss", "rebuild"}

\* the usable batch whose loss is already in the running sum while its count
\* is added only when its mpi.avg returns
CountPending(p) ==
    IF pc[p] = "w_avg" /\ hist[p].entries[Len(hist[p].entries)].ok THEN 1 ELSE 0

\* C10: while epoch i runs, procAvgLoss[i] is the sum of the losses of the
\* batches with a usable result and efficientBatchCnt is their number once
\* the batch's loss average has returned (a NaN-gated batch changes neither);
\* once the epoch has ended, procAvgLoss[i] is that sum divided by that number.
C10_EpochAverage ==
    Training =>
      \A p \in Procs :
        (hist[p].epoch >= 0) =>
          LET oks == OkLosses(hist[p].entries)
          IN  IF EpochClosed(p)
              THEN /\ Len(oks) > 0
                   /\ procAvgLoss[p][hist[p].epoch + 1] = RDiv(RSumSeq(oks), Len(oks))
              ELSE /\ procAvgLoss[p][ep[p] + 1] = RSumSeq(oks)
                   /\ efficientBatchCnt[p] + CountPending(p) = Len(oks)
C10_Witness ==
    /\ Training
    /\ \E p \in Procs :
          /\ EpochClosed(p)
          /\ pc[p] # "crashed"
          /\ \E k \in DOMAIN hist[p].entries : ~hist[p].entries[k].ok
          /\ \E k, m \in DOMAIN hist[p].entries :
                /\ hist[p].entries[k].ok /\ hist[p].entries[m].ok
                /\ hist[p].entries[k].loss # hist[p].entries[m].loss

FinalFiles == {f \in files : f.tag = -1}

\* C11: in both training loops every checkpoint file is written by rank 0;
\* the final checkpoint exists only after every process has taken part in the
\* final loss average, and once rank 0 has finished it consists of the model
\* file and the encoder file, two separate files.
C11_RootCheckpoints ==
    Training =>
      /\ \A f \in files : f.rank = 0
      /\ (FinalFiles # {}) => \A p \in Procs : pc[p] \in {"finish", "done"}
      /\ (pc[0] = "done") =>
            /\ Cardinality(FinalFiles) = 2
            /\ {f.kind : f \in FinalFiles} = {"model", "encoder"}
      /\ \A f \in files : \E g \in files : g.tag = f.tag /\ g.kind # f.kind
C11_Witness ==
    /\ Training
    /\ tn > 1
    /\ \A p \in Procs : pc[p] = "done"
    /\ Cardinality(FinalFiles) = 2
    /\ \E f \in files : f.tag = 5

\* ---------------------------------------- claims about solver.py's Solver.solve
OpsOf(op) == LET test(e) == e.op = op IN SelectSeq(senv.log, test)
Solving == spc \notin {"off", "call"}
\* the actions handed to the gradient rollout of iteration k (from 1)
GradActions(k) == OpsOf("forward")[k].arg
\* the losses of the gradient rollouts run so far
SeenLosses == {scfg.lossSeq[k] : k \in 1 .. Len(OpsOf("forward"))}
LeastOf(S) == CHOOSE m \in S : \A u \in S : m <= u
ReturnsBestOf(k) ==
    /\ scfg.lossSeq[k] = LeastOf(SeenLosses)
    /\ sol.ret.some
    /\ sol.ret.val = GradActions(k)

\* C12 as stated: best_loss never increases, and whenever solve returns after
\* at least one iteration, what it returns is the pre-update action sequence
\* of an iteration whose gradient rollout gave the least loss observed.
C12_ReturnsMinimumLoss ==
    (spc = "returned" /\ scfg.n_iters > 0)
    => \E k \in 1 .. scfg.n_iters : ReturnsBestOf(k)

C12_StatePart ==
    /\ Solving => sol.best_loss <= BestLossInit
    /\ (Solving /\ sol.best_action.some) =>
          /\ sol.best_loss = LeastOf(SeenLosses)
          /\ \E k \in 1 .. Len(OpsOf("forward")) :
                /\ scfg.lossSeq[k] = sol.best_loss
                /\ sol.best_action.val = GradActions(k)
    /\ (spc = "returned") =>
          /\ sol.ret = sol.best_action
          /\ IF \E k \in 1 .. scfg.n_iters : scfg.lossSeq[k] < BestLossInit
             THEN \E k \in 1 .. scfg.n_iters : ReturnsBestOf(k)
             ELSE ~sol.ret.some
\* C12 (amended): best_loss never increases from its initial 1e10; when some
\* iteration's loss was below 1e10, solve returns the pre-update action
\* sequence of an iteration whose gradient rollout gave the least loss
\* observed (not necessarily the last iterate), and None otherwise.
C12_BestSoFar ==
    /\ []C12_StatePart
    /\ [][Solving => sol'.best_loss <= sol.best_loss]_vars
C12_Witness ==
    /\ spc = "returned"
    /\ scfg.n_iters >= 3
    /\ sol.ret.some
    /\ sol.ret.val = GradActions(2)
    /\ sol.ret.val # GradActions(scfg.n_iters)
    /\ sol.ret.val # sol.actions
    /\ Len(sol.ret.val) > 0

\* the snapshots written so far, in order: <<index, simulator state>>
Snapshots == OpsOf("save_current_state")
Horizon == Len(sol.actions)

\* C13: after every completed archive pass, and so when action.npy is
\* written, pc_cnt equals the length of action_buffer; each pass over H
\* actions adds H + 1 snapshots and H + 1 actions, the last action of a pass
\* being the zero padding, paired with the last snapshot of the pass; the
\* snapshot indices are 0, 1, 2, ... with none written twice.
C13_ArchiveAligned ==
    /\ Solving => \A j \in DOMAIN Snapshots : Snapshots[j].arg[1] = j - 1
    /\ (spc \in {"loop", "returned"}) =>
          /\ sol.pc_cnt = Len(sol.action_buffer)
          /\ sol.pc_cnt = Len(Snapshots)
          /\ sol.pc_cnt = sol.iter * (Horizon + 1)
          /\ \A k \in 1 .. sol.iter :
                /\ sol.action_buffer[k * (Horizon + 1)] = 0
                /\ \A i \in 1 .. Horizon :
                      sol.action_buffer[(k - 1) * (Horizon + 1) + i] =
                         OpsOf("forward_nograd")[k].arg[i]
    /\ (spc = "returned") =>
          /\ sol.saved.some
          /\ sol.saved.val = sol.action_buffer
          /\ Len(sol.saved.val) = Len(Snapshots)
C13_Witness ==
    /\ spc = "returned"
    /\ sol.iter >= 2
    /\ Horizon >= 2
    /\ sol.pc_cnt = 2 * (Horizon + 1)
    /\ Len(sol.saved.val) = sol.pc_cnt

IsRollout(e) == e.op \in {"forward", "forward_nograd"}
Snapshot == sol.env_state.state

\* C14: Solver.solve reads the environment's state exactly once, before
\* anything else; every gradient rollout and every archive rollout starts by
\* setting the simulator to that snapshot, and no step is taken outside a
\* rollout; when solve returns, the environment is back at the snapshot.
C14_FixedStartState ==
    Solving =>
      /\ (spc # "raised" \/ sol.raised # "NotImplementedError") =>
            /\ Len(OpsOf("get_state")) = 1
            /\ senv.log[1] = Event("get_state", <<scfg.x0>>)
            /\ sol.env_state = [some |-> TRUE, state |-> scfg.x0]
      /\ \A j \in DOMAIN senv.log :
            /\ IsRollout(senv.log[j]) =>
                  /\ j < Len(senv.log)
                  /\ senv.log[j + 1] = Event("set_state", <<scfg.x0>>)
            /\ (senv.log[j].op = "step") =>
                  senv.log[j - 1].op \in {"set_state", "compute_loss", "save_current_state"}
            /\ (senv.log[j].op = "set_state"
                /\ ~(spc = "returned" /\ j = Len(senv.log) - 1)) =>
                  IsRollout(senv.log[j - 1])
      /\ (spc = "returned") =>
            /\ senv.x = scfg.x0
            /\ senv.log[Len(senv.log) - 1] = Event("set_state", <<scfg.x0>>)
C14_Witness ==
    /\ spc = "returned"
    /\ sol.iter >= 2
    /\ Horizon >= 1
    /\ senv.x = scfg.x0
    /\ \E j \in DOMAIN senv.log : senv.log[j].op = "step" /\ senv.log[j].arg[1] # 0

\* C15: called without initial actions and with a sampler other than
\* 'uniform', Solver.solve raises NotImplementedError at once: the
\* environment's state was neither read nor changed, no simulator call was
\* made, and nothing went to the trajectory archive.
C15_UnsupportedSampler ==
    /\ (spc # "off" /\ ~scfg.given /\ scfg.init_sampler # "uniform") =>
          /\ spc \in {"call", "raised"}
          /\ (spc = "raised") => sol.raised = "NotImplementedError"
          /\ senv = [x |-> scfg.x0, log |-> <<>>]
          /\ ~sol.env_state.some
          /\ sol.action_buffer = <<>>
          /\ sol.pc_cnt = 0
          /\ ~sol.saved.some
    /\ (spc = "raised" /\ sol.raised = "NotImplementedError") =>
          (~scfg.given /\ scfg.init_sampler # "uniform")
C15_Witness ==
    /\ spc = "raised"
    /\ sol.raised = "NotImplementedError"
    /\ scfg.n_iters > 0
    /\ scfg.horizon > 0

IsSolverOp(e) == e.op \in {"forward", "optim.step", "callback", "forward_nograd"}
SolverOps == SelectSeq(senv.log, IsSolverOp)
PerIter == 3 + scfg.ncb

\* C20: every iteration of Solver.solve is one gradient rollout of the
\* current actions, then one optimizer step, then the callbacks, then one
\* archive rollout of the actions that step returned; after k iterations over
\* H actions total_steps is 2 * k * H.
C20_IterationShape ==
    (spc \in {"loop", "returned"}) =>
      /\ Len(SolverOps) = sol.iter * PerIter
      /\ \A k \in 1 .. sol.iter :
            LET b == (k - 1) * PerIter
            IN  /\ SolverOps[b + 1].op = "forward"
                /\ SolverOps[b + 2].op = "optim.step"
                /\ \A j \in 1 .. scfg.ncb : SolverOps[b + 2 + j].op = "callback"
                /\ SolverOps[b + PerIter].op = "forward_nograd"
                /\ SolverOps[b + PerIter].arg = SolverOps[b + 2].arg
                /\ SolverOps[b + 2].arg = optim_step(SolverOps[b + 1].arg,
                                                     sim_get_grad(Horizon))
                /\ (k > 1) => SolverOps[b + 1].arg = SolverOps[b - PerIter + 2].arg
      /\ sol.total_steps = 2 * sol.iter * Horizon
      /\ Len(OpsOf("step")) = sol.total_steps
C20_Witness ==
    /\ spc = "returned"
    /\ sol.iter = 3
    /\ Horizon = 2
    /\ scfg.ncb = 1
    /\ sol.total_steps = 12

\* C16: with more than one process, when every process has returned from
\* _update_network_mpi and none has yet entered mpi.sync_params, all
\* processes hold the same parameters (they held the same ones before the
\* batch, by C4).
C16_IdenticalAfterUpdate ==
    (Training /\ tn > 1 /\ \A p \in Procs : pc[p] = "w_sync_params")
    => \A p, q \in Procs : params[p] = params[q]

IsUpdateOp(c) == c \in {"zero_grad", "backward", "avg_grads", "step"}
GotBoth(p) == res[p].ret.state.some /\ res[p].ret.gradient.some

\* C17: in a gradient-mode batch the update procedure runs zero_grad,
\* backward, the gradient average (learn_latent: with more than one process),
\* optimizer.step, in this order; zero_grad, backward and step run exactly
\* when solve_multistep returned a state and a gradient, and the gradient
\* average is never after the step.
C17_UpdateOrder ==
    Training =>
      \A p \in Procs :
        (pc[p] \in {"w_sync_params", "batch_end"} /\ Head(calls[p]) = "solve_multistep")
        => /\ SelectSeq(calls[p], IsUpdateOp) =
                (IF GotBoth(p) THEN <<"zero_grad", "backward">> ELSE <<>>)
                \o (IF loop = "focal" \/ tn > 1 THEN <<"avg_grads">> ELSE <<>>)
                \o (IF GotBoth(p) THEN <<"step">> ELSE <<>>)
           /\ \A i, j \in DOMAIN calls[p] :
                (calls[p][i] = "avg_grads" /\ calls[p][j] = "step") => i < j
           /\ SubSeq(calls[p], 1, 2) = <<"solve_multistep", "avg">>
C17_Witness ==
    /\ Training
    /\ tn > 1
    /\ \A p \in Procs : pc[p] = "batch_end"
    /\ \E p, q \in Procs :
          /\ ~GotBoth(p)
          /\ SelectSeq(calls[p], IsUpdateOp) = <<"avg_grads">>
          /\ GotBoth(q)
          /\ SelectSeq(calls[q], IsUpdateOp) = <<"zero_grad", "backward", "avg_grads", "step">>

FullLoader == [k \in 1 .. NSamples |-> k]
Focal == loop = "focal"

\* the state part of C18: a process about to rebuild has just run an
\* evaluation epoch whose batches are in the Loss Table, and holds the same
\* table as every other process; a process in gradient mode iterates the
\* focal subset of its table, never the full dataset
C18_RebuildState ==
    Focal =>
      \A p \in Procs :
        /\ (pc[p] \in {"w_sync_loss", "rebuild"}) =>
              /\ ~use_grad[p]
              /\ hist[p].epoch = ep[p]
              /\ Len(hist[p].entries) = NumBatches(dataloader[p], tn)
              /\ Len(hist[p].entries) > 0
              /\ loss_table[p][res[p].idx] = res[p].ret.loss
        /\ (pc[p] = "rebuild") => \A q \in Procs : loss_table[q] = loss_table[p]
        /\ use_grad[p] =>
              /\ dataloader[p] = getSubset(loss_table[p], FocalSize)
              /\ Len(dataloader[p]) = Min(FocalSize, NSamples)
              /\ (FocalSize < NSamples) => dataloader[p] # FullLoader
\* C18: in learn_latent_focal every rebuild of the dataloader directly follows
\* an epoch run in evaluation mode, takes the focal subset of the Loss Table
\* after it was synchronized across the processes, and switches to gradient
\* mode; the gradient-mode epochs iterate the rebuilt dataloader, never the
\* full dataset.
C18_RebuildAfterEvaluation ==
    /\ []C18_RebuildState
    /\ [][Focal =>
            \A p \in Procs :
              (dataloader'[p] # dataloader[p] \/ (use_grad'[p] /\ ~use_grad[p])) =>
                /\ pc[p] = "rebuild"
                /\ ~use_grad[p] /\ use_grad'[p]
                /\ ep'[p] = ep[p] + 1
                /\ dataloader'[p] = getSubset(loss_table[p], FocalSize)
                /\ \A q \in Procs : loss_table[q] = loss_table[p]]_vars
C18_Witness ==
    /\ Focal
    /\ tn > 1
    /\ \E p \in Procs :
          /\ ep[p] = 6
          /\ pc[p] = "w_avg"
          /\ use_grad[p]
          /\ dataloader[p] # FullLoader
          /\ dataloader[p] # TopK([s \in Samples |-> 0], Samples, FocalSize)

\* the loss the batch of process p records for sample s, if it records one
Recorded(p, s) == \E k \in DOMAIN gathered[p].val : gathered[p].val[k].idx = s
RecordedLoss(p, s) ==
    LET k == CHOOSE j \in DOMAIN gathered[p].val :
                /\ gathered[p].val[j].idx = s
                /\ \A m \in DOMAIN gathered[p].val : gathered[p].val[m].idx = s => m <= j
    IN  gathered[p].val[k].loss

\* the state part of C19: a gradient-mode batch of learn_latent_focal makes
\* no call that writes the Loss Table, and the table keeps one entry per sample
C19_TableState ==
    Focal =>
      \A p \in Procs :
        /\ DOMAIN loss_table[p] = Samples
        /\ (InBatch(p) /\ use_grad[p]) =>
              /\ Head(calls[p]) = "solve_multistep"
              /\ ~Has(calls[p], "gather_loss_id")
              /\ ~Has(calls[p], "recordLoss")
\* C19: in learn_latent_focal the Loss Table changes only where an
\* evaluation-mode batch records its losses: each recorded sample takes the
\* loss just observed, every other entry keeps its value, and no step clears
\* an entry; so an entry always holds the latest evaluation loss of its sample.
C19_TableWrittenByEvaluation ==
    /\ []C19_TableState
    /\ [][Focal =>
            \A p \in Procs :
              /\ (loss_table'[p] # loss_table[p]) =>
                    (pc[p] = "record" /\ ~use_grad[p]
                     /\ Head(calls[p]) = "exec_multistep")
              /\ \A s \in Samples :
                    /\ loss_table'[p][s] =
                          (IF pc[p] = "record" /\ pc'[p] # "record" /\ Recorded(p, s)
                           THEN RecordedLoss(p, s) ELSE loss_table[p][s])
                    /\ (loss_table[p][s] # 0) => (loss_table'[p][s] # 0)]_vars
C19_Witness ==
    /\ Focal
    /\ \E p \in Procs :
          /\ ep[p] = 6
          /\ use_grad[p]
          /\ pc[p] = "batch_end"
          /\ Has(calls[p], "step")
          /\ \A s \in Samples : loss_table[p][s] > 0
          /\ \E s \in Samples : loss_table[p][s] # s

\* the calls of steps 0 .. n-1 of a rollout, in order
RECURSIVE StepCalls(_)
StepCalls(n) ==
    IF n = 0 THEN <<>>
    ELSE StepCalls(n - 1) \o <<EnvCall("set_target", n - 1), EnvCall("step", n - 1),
                               EnvCall("compute_loss", n - 1)>>
RECURSIVE SumTerms(_, _)
SumTerms(terms, n) == IF n = 0 THEN 0 ELSE SumTerms(terms, n - 1) + terms[n]

\* C21: a rollout of n steps by solve_multistep or exec_multistep resets the
\* simulator to the substituted state once, before step 0; then for i = 0 ..
\* n-1 in order it sets target i, steps with action i and accumulates the
\* loss; solve_multistep then finalizes the gradient bookkeeping (set_grad)
\* once, before the loss and the state gradient are read.
C21_RolloutOrder ==
    rpc = "returned" =>
      LET n == rollout_steps(rself, RolloutLen)
      IN  /\ renv.nsteps = n
          /\ renv.state = heap["state_hat"]
          /\ renv.loss = SumTerms(rin.lossTerms, n)
          /\ renv.log =
               <<EnvCall("set_state", -1)>> \o StepCalls(n)
               \o (IF rop = "solve_multistep"
                   THEN <<EnvCall("set_grad", -1), EnvCall("read_loss", -1),
                          EnvCall("get_state_grad", -1)>>
                   ELSE <<EnvCall("read_loss", -1)>>)
C21_Witness ==
    /\ Returned("solve_multistep")
    /\ renv.nsteps = 2
    /\ RolloutLen = 3
    /\ renv.log[Len(renv.log) - 2] = EnvCall("set_grad", -1)
    /\ renv.log[5] = EnvCall("set_target", 1)

Objects == {"dataset", "env", "model", "optimizer", "solver"}
CountOf(b, c) == Cardinality({k \in DOMAIN b : b[k] = c})

\* C22: in both training loops a process decides the worker count and calls
\* mpi.fork exactly once, before it constructs the dataset, the simulator
\* environment, the model and the optimizer; before the fork none of these
\* objects exists in the process.
C22_ForkBeforeConstruction ==
    Training =>
      \A p \in Procs :
        /\ CountOf(built[p], "fork") <= 1
        /\ CountOf(built[p], "best_mpi_subprocess_num") <= 1
        /\ \A i \in DOMAIN built[p] :
              /\ (built[p][i] \in Objects) =>
                    \E j \in 1 .. i - 1 : built[p][j] = "fork"
              /\ (built[p][i] = "fork") =>
                    \E j \in 1 .. i - 1 : built[p][j] = "best_mpi_subprocess_num"
        /\ (pc[p] = "start") => built[p] = <<>>
        /\ (pc[p] = "forked") =>
              /\ CountOf(built[p], "fork") = 1
              /\ \A i \in DOMAIN built[p] : built[p][i] \notin Objects
        /\ (pc[p] \notin {"start", "forked"}) =>
              /\ CountOf(built[p], "fork") = 1
              /\ CountOf(built[p], "best_mpi_subprocess_num") = 1
              /\ \A o \in Objects : CountOf(built[p], o) = 1
C22_Witness ==
    /\ Training
    /\ tn > 1
    /\ \E p, q \in Procs :
          /\ pc[p] = "forked"
          /\ ~Has(built[p], "model")
          /\ pc[q] = "w_avg"
          /\ Has(built[q], "model") /\ Has(built[q], "env")

\* C23: in learn_latent_focal, with its 20 epochs, the batches of epoch i run
\* in evaluation mode exactly when i mod 5 = 0 (epochs 0, 5, 10, 15) and in
\* gradient mode in every other epoch: the mode flag of a process always
\* agrees with its epoch number, and every batch makes the rollout call of
\* that mode.
C23_EvaluationEveryFifthEpoch ==
    Focal =>
      \A p \in Procs :
        /\ ep[p] \in 0 .. EpochsFocal
        /\ use_grad[p] <=> (ep[p] % 5 # 0)
        /\ InBatch(p) =>
              /\ ep[p] < EpochsFocal
              /\ hist[p].epoch \in {ep[p], ep[p] - 1}
              /\ Head(calls[p]) = (IF ep[p] \in {0, 5, 10, 15}
                                   THEN "exec_multistep" ELSE "solve_multistep")
C23_Witness ==
    /\ Focal
    /\ \E p \in Procs :
          /\ ep[p] = 15
          /\ pc[p] = "record"
          /\ ~use_grad[p]
          /\ Head(calls[p]) = "exec_multistep"
          /\ hist[p].epoch = 14

\* C24: in both training loops the end-of-epoch division
\* procAvgLoss[i] /= efficientBatchCnt is always defined: when a process has
\* run all batches of an epoch its count of usable batches is at least 1,
\* whatever the pattern of NaN-gated batches, so no process aborts at the end
\* of an epoch while its peers continue to the next collective.
C24_DivisionDefined ==
    Training =>
      \A p \in Procs :
        /\ pc[p] # "crashed"
        /\ (pc[p] = "loop" /\ ep[p] < Epochs(loop)
            /\ batchCnt[p] >= NumBatches(dataloader[p], tn)) =>
              efficientBatchCnt[p] >= 1

\* the iterations, among the first n, whose loss is below the initial best_loss
BelowInit(n) == {k \in 1 .. n : scfg.lossSeq[k] < BestLossInit}
\* the earliest of them with the least loss
EarliestBest(n) ==
    CHOOSE k \in BelowInit(n) :
        \A j \in BelowInit(n) :
            \/ scfg.lossSeq[k] < scfg.lossSeq[j]
            \/ (scfg.lossSeq[k] = scfg.lossSeq[j] /\ k <= j)
\* the state part of C25: best_action is None exactly while no gradient
\* rollout gave a loss below the initial best_loss, and otherwise holds, in an
\* array of its own, the actions of the earliest rollout with the least loss
C25_StatePart ==
    /\ (Solving /\ spc # "raised") =>
          LET n == Len(OpsOf("forward"))
          IN  /\ sol.best_action.some <=> BelowInit(n) # {}
              /\ sol.best_action.some =>
                    /\ ~sol.best_action.alias
                    /\ sol.best_action.val = GradActions(EarliestBest(n))
                    /\ sol.best_loss = scfg.lossSeq[EarliestBest(n)]
    /\ (spc = "returned") =>
          /\ Len(OpsOf("forward")) = scfg.n_iters
          /\ sol.ret = sol.best_action
          /\ (~sol.ret.some) <=> BelowInit(scfg.n_iters) = {}
          /\ (scfg.n_iters = 0) => ~sol.ret.some
\* C25: Solver.solve returns None exactly when no iteration gave a loss
\* strictly below the initial 1e10 (in particular with n_iters = 0);
\* otherwise it returns a copy of the actions of the earliest iteration that
\* gave the least loss (an equal later loss does not replace it), and no
\* optimizer step changes that copy.
C25_ReturnsEarliestBestCopy ==
    /\ []C25_StatePart
    /\ [][(Solving /\ spc = "step") => sol'.best_action = sol.best_action]_vars
C25_Witness ==
    /\ spc = "returned"
    /\ scfg.n_iters = 3
    /\ scfg.inplace
    /\ scfg.lossSeq = <<2, 1, 1>>
    /\ Len(sol.actions) = 2
    /\ sol.ret.some
    /\ sol.ret.val = GradActions(2)
    /\ sol.ret.val # GradActions(3)
    /\ sol.ret.val # sol.actions

\* the samples a dataloader iterates
LoaderSamples(loader) == {loader[k] : k \in DOMAIN loader}

\* the state part of C26: the full dataset is iterated in epoch 0 only; from
\* epoch 1 on a process iterates a focal subset, and the batch of an
\* evaluation epoch after epoch 0 is a sample of that subset
C26_LoaderState ==
    Focal =>
      \A p \in Procs :
        /\ (ep[p] = 0) => dataloader[p] = FullLoader
        /\ (ep[p] > 0) =>
              /\ Len(dataloader[p]) = Min(FocalSize, NSamples)
              /\ LoaderSamples(dataloader[p]) \subseteq Samples
              /\ (FocalSize < NSamples) => LoaderSamples(dataloader[p]) # Samples
        /\ (InBatch(p) /\ ~use_grad[p]) =>
              /\ ep[p] \in {0, 5, 10, 15}
              /\ res[p].idx \in LoaderSamples(dataloader[p])
              /\ \A k \in DOMAIN gathered[p].val :
                    (pc[p] = "record") =>
                       gathered[p].val[k].idx \in LoaderSamples(dataloader[p])
\* C26: in learn_latent_focal only the evaluation epoch 0 iterates the full
\* dataset; the evaluation epochs 5, 10 and 15 iterate the focal-subset
\* dataloader built at the previous rebuild (the dataloader changes at a
\* rebuild only), so in those epochs only the Loss Table entries of samples of
\* that subset change and every other entry keeps its value.
C26_LaterEvaluationOnSubset ==
    /\ []C26_LoaderState
    /\ [][Focal =>
            \A p \in Procs :
              /\ (dataloader'[p] # dataloader[p]) =>
                    (pc[p] = "rebuild" /\ ep[p] % 5 = 0 /\ ep'[p] = ep[p] + 1)
              /\ \A s \in Samples :
                    (ep[p] > 0 /\ s \notin LoaderSamples(dataloader[p])) =>
                       loss_table'[p][s] = loss_table[p][s]]_vars
C26_Witness ==
    /\ Focal
    /\ \E p \in Procs :
          /\ ep[p] = 5
          /\ pc[p] = "w_avg"
          /\ Has(calls[p], "recordLoss")
          /\ dataloader[p] # FullLoader
          /\ loss_table[p][res[p].idx] = res[p].ret.loss
          /\ loss_table[p][res[p].idx] # res[p].idx
          /\ \E s \in Samples \ LoaderSamples(dataloader[p]) : loss_table[p][s] = s

====
